---- MODULE Spec2Model ----
(***************************************************************************)
(* Excel Validation App (Interactive Fixes): the validation pass over the  *)
(* session's working dataset, the Submit Fix handler and the download      *)
(* button of src/app.py, as a state machine whose steps are script runs.   *)
(*                                                                         *)
(* Text that the code inspects character by character (headers, data type, *)
(* mandatory flag, validation expression) is a sequence of one-character   *)
(* strings.  Cell values are records: k is the kind ("na" missing, "str",  *)
(* "int" of an int64 column, "num" of a float64 column, "ts" timestamp),   *)
(* s the text payload, n the numeric payload.                              *)
(***************************************************************************)
EXTENDS Integers, Sequences, FiniteSets, TLC

\* ------------------------------------------------------------------------
\* Bounds of the model
\* ------------------------------------------------------------------------
\* number of data rows of the input sheet
NumRows == 2

\* ------------------------------------------------------------------------
\* Python text operations
\* ------------------------------------------------------------------------
\* str.lower(), one character
LowerChar(c) ==
    CASE c = "A" -> "a" [] c = "D" -> "d" [] c = "E" -> "e" [] c = "M" -> "m"
      [] c = "N" -> "n" [] c = "O" -> "o" [] c = "R" -> "r" [] c = "T" -> "t"
      [] c = "X" -> "x" [] c = "G" -> "g"
      [] OTHER -> c

\* str.upper(), one character
UpperChar(c) ==
    CASE c = "a" -> "A" [] c = "d" -> "D" [] c = "e" -> "E" [] c = "m" -> "M"
      [] c = "n" -> "N" [] c = "o" -> "O" [] c = "r" -> "R" [] c = "t" -> "T"
      [] c = "x" -> "X" [] c = "g" -> "G"
      [] OTHER -> c

\* str.lower()
Lower(s) == [i \in DOMAIN s |-> LowerChar(s[i])]

\* str.upper()
Upper(s) == [i \in DOMAIN s |-> UpperChar(s[i])]

RECURSIVE LStrip(_)
LStrip(s) == IF s # <<>> /\ Head(s) = " " THEN LStrip(Tail(s)) ELSE s

RECURSIVE RStrip(_)
RStrip(s) ==
    IF s # <<>> /\ s[Len(s)] = " " THEN RStrip(SubSeq(s, 1, Len(s) - 1)) ELSE s

\* str.strip()
Strip(s) == RStrip(LStrip(s))

\* sub in s
Contains(sub, s) ==
    \E i \in 1..(Len(s) - Len(sub) + 1) : SubSeq(s, i, i + Len(sub) - 1) = sub

\* s.startswith(p)
StartsWith(s, p) == Len(s) >= Len(p) /\ SubSeq(s, 1, Len(p)) = p

\* the characters of the texts of the headers and of the rule sheet
Chars(t) ==
    CASE t = "" -> <<>>
      [] t = "Amount" -> <<"A", "m", "o", "u", "n", "t">>
      [] t = "EventDate" -> <<"E", "v", "e", "n", "t", "D", "a", "t", "e">>
      [] t = "DateTime" -> <<"D", "a", "t", "e", "T", "i", "m", "e">>
      [] t = "Number" -> <<"N", "u", "m", "b", "e", "r">>
      [] t = "date" -> <<"d", "a", "t", "e">>
      [] t = "string" -> <<"s", "t", "r", "i", "n", "g">>
      [] t = " m " -> <<" ", "m", " ">>
      [] t = "O" -> <<"O">>
      [] t = "Regex: \\d+" -> <<"R", "e", "g", "e", "x", ":", " ", "\\", "d", "+">>
      [] t = "regex:(" -> <<"r", "e", "g", "e", "x", ":", "(">>
      [] t = "nan" -> <<"n", "a", "n">>

\* an empty spreadsheet cell of the rule sheet as pandas reads it (float NaN)
NaNValue == "<NaN>"

\* isinstance(v, str)
IsStr(v) == v # NaNValue

\* str(v)
PyStr(v) == IF v = NaNValue THEN "nan" ELSE v

\* elements of a sequence
Range(s) == {s[i] : i \in DOMAIN s}

\* ------------------------------------------------------------------------
\* Cell values of a pandas column
\* ------------------------------------------------------------------------
NaN == [k |-> "na", s |-> "nan", n |-> 0]
NaT == [k |-> "na", s |-> "NaT", n |-> 0]
StrCell(t) == [k |-> "str", s |-> t, n |-> 0]
NumCell(i) == [k |-> "num", s |-> "", n |-> i]
IntCell(i) == [k |-> "int", s |-> "", n |-> i]
TsCell(t) == [k |-> "ts", s |-> t, n |-> 0]

\* the two formats of the header rule and a format with a bad directive
DateFormat == "%d-%m-%Y"
DateTimeFormat == "%d-%m-%Y %H:%M"
BadFormat == "%Q"

\* Series.isnull(), one cell
IsNull(c) == c.k = "na"

\* strings pandas' datetime parsers read as NaT
NatStrings == {"nan", "NaT", ""}

\* the strptime format a text matches exactly, "none" when it matches neither
FormatOfText(t) ==
    CASE t = "31-12-2024" -> DateFormat
      [] t = "31-12-2024 10:30" -> DateTimeFormat
      [] OTHER -> "none"

\* the timestamp a text denotes under the format it matches
TimestampOfText(t) ==
    CASE t = "31-12-2024" -> "2024-12-31"
      [] t = "31-12-2024 10:30" -> "2024-12-31 10:30:00"
      [] OTHER -> "none"

\* texts the numeric parser accepts
IsNumericText(t) == t \in {"12", "12.0"}

\* the number a numeric text denotes
NumberOfText(t) == CASE t = "12" -> 12 [] t = "12.0" -> 12 [] OTHER -> 0

\* texts the numeric parser reads as an integer
IsIntegerText(t) == t \in {"12"}

\* str() of a cell of a float64 column
TextOfNumber(i) == CASE i = 12 -> "12.0"

\* str() of a cell of an int64 column
TextOfInteger(i) == CASE i = 12 -> "12"

\* ------------------------------------------------------------------------
\* pandas column operations used by app.py
\* ------------------------------------------------------------------------
\* a column of dtype datetime64 (what a date coercion leaves behind)
IsDatetimeColumn(col) == \A i \in DOMAIN col : col[i].k = "ts" \/ col[i] = NaT

\* df[field].isnull().any()
AnyNull(col) == \E i \in DOMAIN col : IsNull(col[i])

\* pd.to_numeric(col) raises: some text of an object column is not a number
ToNumericRaises(col) ==
    \E i \in DOMAIN col : col[i].k = "str" /\ ~IsNumericText(col[i].s)

\* the formats of the texts of a column that are not NaT strings
TextFormats(col) ==
    {FormatOfText(col[i].s) :
        i \in {j \in DOMAIN col : col[j].k = "str" /\ col[j].s \notin NatStrings}}

\* pd.to_datetime(col, errors='raise') raises: the format is guessed from the
\* first text and every text has to parse under it; numbers are epoch offsets
ToDatetimeRaises(col) ==
    \/ "none" \in TextFormats(col)
    \/ Cardinality(TextFormats(col)) > 1

\* pd.to_datetime(col, format=fmt, errors='raise') raises: a datetime64 column
\* is returned as it is, every other value is parsed as text
ToDatetimeFormatRaises(col, fmt) ==
    /\ ~IsDatetimeColumn(col)
    /\ \E i \in DOMAIN col :
          \/ col[i].k \in {"num", "int"}
          \/ col[i].k = "str" /\ col[i].s \notin NatStrings
                              /\ FormatOfText(col[i].s) # fmt

\* the format string has a directive strptime does not know
IsBadFormat(fmt) == fmt \notin {DateFormat, DateTimeFormat}

\* pd.to_datetime(col, format=fmt, errors='coerce') raises
CoerceDateRaises(col, fmt) == ~IsDatetimeColumn(col) /\ IsBadFormat(fmt)

\* pd.to_datetime(col, format=fmt, errors='coerce'), one cell
CoerceDateCell(c, fmt) ==
    CASE c.k = "str" ->
            IF c.s \notin NatStrings /\ FormatOfText(c.s) = fmt
            THEN TsCell(TimestampOfText(c.s)) ELSE NaT
      [] c.k \in {"num", "int"} -> NaT
      [] c.k = "na" -> NaT
      [] c.k = "ts" -> c

\* pd.to_numeric gives int64: every value of the column reads as an integer
\* and none is missing; one missing or fractional value makes it float64
IntegerResult(col) ==
    \A i \in DOMAIN col :
        \/ col[i].k = "int"
        \/ col[i].k = "str" /\ IsIntegerText(col[i].s)

\* pd.to_numeric(col, errors='ignore'), one cell: what does not parse stays
CoerceNumberCellKeep(c, integer) ==
    CASE c.k = "str" ->
            IF IsNumericText(c.s)
            THEN IF integer THEN IntCell(NumberOfText(c.s))
                 ELSE NumCell(NumberOfText(c.s))
            ELSE c
      [] c.k \in {"num", "int"} -> c
      [] c = NaN -> NaN

\* pd.to_numeric(col, errors='coerce'), one cell; integer says the result is
\* int64.  A column that is numeric already is returned as it is.
CoerceNumberCell(c, integer) ==
    CASE c.k = "str" ->
            IF IsNumericText(c.s)
            THEN IF integer THEN IntCell(NumberOfText(c.s))
                 ELSE NumCell(NumberOfText(c.s))
            ELSE NaN
      [] c.k \in {"num", "int"} -> c
      [] c = NaN -> NaN

\* col.astype(str), one cell of an object, float64 or int64 column
CoerceStringCell(c) ==
    CASE c.k = "str" -> c
      [] c.k = "num" -> StrCell(TextOfNumber(c.n))
      [] c.k = "int" -> StrCell(TextOfInteger(c.n))
      [] c.k = "na" -> StrCell(c.s)

\* str(value) as Series.astype(str) gives it to the regex
TextOfCell(c) ==
    CASE c.k = "str" -> c.s
      [] c.k = "num" -> TextOfNumber(c.n)
      [] c.k = "int" -> TextOfInteger(c.n)
      [] c.k = "na" -> c.s
      [] c.k = "ts" -> c.s

\* ------------------------------------------------------------------------
\* Regular expressions of the rule sheet
\* ------------------------------------------------------------------------
RegexPrefix == <<"r", "e", "g", "e", "x", ":">>
DigitsPattern == <<"\\", "d", "+">>
BrokenPattern == <<"(">>

\* re.compile(pattern) succeeds
PatternCompiles(p) == p # BrokenPattern

\* re.fullmatch(pattern, text)
FullMatch(p, t) == CASE p = DigitsPattern -> t \in {"12"}

\* Series.astype(str).str.fullmatch(pattern) is False for some row
SomeRowFailsPattern(col, p) ==
    \E i \in DOMAIN col : ~FullMatch(p, TextOfCell(col[i]))

\* ------------------------------------------------------------------------
\* Insertion-ordered dict
\* ------------------------------------------------------------------------
EmptyDict == [keys |-> <<>>, val |-> <<>>]

\* d.setdefault(k, v): the first value of a key stays
DictPutKeep(d, k, v) ==
    IF k \in Range(d.keys) THEN d
    ELSE [keys |-> Append(d.keys, k),
          val |-> [x \in Range(d.keys) \cup {k} |-> IF x = k THEN v ELSE d.val[x]]]

\* d[k] = v
DictPut(d, k, v) ==
    IF k \in Range(d.keys)
    THEN [keys |-> d.keys, val |-> [d.val EXCEPT ![k] = v]]
    ELSE [keys |-> Append(d.keys, k),
          val |-> [x \in Range(d.keys) \cup {k} |-> IF x = k THEN v ELSE d.val[x]]]

\* k in d
DictHas(d, k) == k \in Range(d.keys)

\* ------------------------------------------------------------------------
\* The rule sheet and the validation specification (lines 119-155)
\* ------------------------------------------------------------------------
\* df_validations.shape[1] < 6: only a sheet with too few columns is refused
SheetTooNarrow(sheet) == sheet.ncols < 6

\* df_validations.shape[1] != 6: the sheet is refused and the script stops
SheetRefused(sheet) == sheet.ncols # 6

\* mandatory = True if str(mandatory_flag) == "M" else False
IsMandatoryExact(flag) == Chars(PyStr(flag)) = <<"M">>

\* mandatory = True if str(mandatory_flag).strip().upper() == "M" else False
IsMandatory(flag) == Upper(Strip(Chars(PyStr(flag)))) = <<"M">>

\* one row of the sheet, columns renamed by position
RuleOfRow(row) ==
    [data_type |-> row[3], mandatory |-> IsMandatory(row[5]),
     validation |-> row[4], description |-> row[6]]

\* validation_spec = {}; for each row: validation_spec[field_name] = {...}
RECURSIVE BuildSpec(_, _)
BuildSpec(rows, d) ==
    IF rows = <<>> THEN d
    ELSE BuildSpec(Tail(rows), DictPut(d, Head(rows)[2], RuleOfRow(Head(rows))))

\* ------------------------------------------------------------------------
\* The validation pass (lines 182-232)
\* ------------------------------------------------------------------------
NonFixable(kind, field, fields, pattern) ==
    [kind |-> kind, field |-> field, fields |-> fields, pattern |-> pattern]

Fixable(kind, format) == [kind |-> kind, format |-> format]

\* field in df_input.columns
HasColumn(df, field) == field \in Range(df.cols)

SelectNotIn(seq, df) ==
    LET F[i \in 0..Len(seq)] ==
          IF i = 0 THEN <<>>
          ELSE IF HasColumn(df, seq[i]) THEN F[i - 1] ELSE Append(F[i - 1], seq[i])
    IN F[Len(seq)]

\* missing_fields = [field for field in expected_fields if field not in columns]
MissingFields(spec, df) == SelectNotIn(spec.keys, df)

\* the state of the pass before the first field: the two containers, and the
\* frame df_input, which is the object the session holds (line 174), so that
\* what a check wrote into it would stay in the session
PassStart(spec, df) ==
    [nf |-> IF MissingFields(spec, df) # <<>>
            THEN <<NonFixable("missing_column", "", MissingFields(spec, df), <<>>)>>
            ELSE <<>>,
     fx |-> EmptyDict,
     raised |-> FALSE,
     df |-> df]

\* the mandatory check (lines 194-195)
MandatoryCheck(acc, field, rule) ==
    IF rule.mandatory /\ AnyNull(acc.df.data[field])
    THEN [acc EXCEPT !.nf = Append(@, NonFixable("mandatory_violation", field, <<>>, <<>>))]
    ELSE acc

\* the data type check (lines 197-207)
DataTypeCheck(acc, field, rule) ==
    LET expected_type == Lower(Chars(PyStr(rule.data_type)))
        col == acc.df.data[field] IN
    IF expected_type = <<"n", "u", "m", "b", "e", "r">>
    THEN IF ToNumericRaises(col)
         THEN [acc EXCEPT !.nf = Append(@, NonFixable("type_violation", field, <<>>, <<>>))]
         ELSE acc
    ELSE IF expected_type = <<"d", "a", "t", "e">>
    THEN IF ToDatetimeRaises(col)
         THEN [acc EXCEPT !.fx = DictPut(@, field, Fixable("type_violation", ""))]
         ELSE acc
    ELSE acc

\* spec["validation"] and isinstance(..., str) and ....lower().startswith("regex:")
HasRegex(validation) ==
    /\ validation # ""
    /\ IsStr(validation)
    /\ StartsWith(Lower(Chars(validation)), RegexPrefix)

\* pattern = spec["validation"][6:].strip()
PatternOf(validation) == Strip(SubSeq(Chars(validation), 7, Len(Chars(validation))))

\* df_input[field] = df_input[field].astype(str) before the match: the regex
\* check writes the texts it matched into the frame
RegexCheckInPlace(acc, field, rule) ==
    IF ~HasRegex(rule.validation) THEN acc
    ELSE IF ~PatternCompiles(PatternOf(rule.validation))
    THEN [acc EXCEPT !.raised = TRUE]
    ELSE LET texts == [i \in DOMAIN acc.df.data[field] |->
                          StrCell(TextOfCell(acc.df.data[field][i]))]
             written == [acc EXCEPT !.df.data[field] = texts]
         IN IF SomeRowFailsPattern(texts, PatternOf(rule.validation))
            THEN [written EXCEPT !.nf =
                     Append(@, NonFixable("pattern_violation", field, <<>>,
                                          PatternOf(rule.validation)))]
            ELSE written

\* the regex check (lines 209-213); an uncompilable pattern raises; the match
\* is made on a converted copy and the frame is left as it is
RegexCheck(acc, field, rule) ==
    IF ~HasRegex(rule.validation) THEN acc
    ELSE IF ~PatternCompiles(PatternOf(rule.validation))
    THEN [acc EXCEPT !.raised = TRUE]
    ELSE IF SomeRowFailsPattern(acc.df.data[field], PatternOf(rule.validation))
    THEN [acc EXCEPT !.nf = Append(@, NonFixable("pattern_violation", field, <<>>,
                                                 PatternOf(rule.validation)))]
    ELSE acc

\* one turn of the loop over validation_spec.items()
FieldChecks(acc, field, rule) ==
    IF acc.raised \/ ~HasColumn(acc.df, field) THEN acc
    ELSE RegexCheck(
            DataTypeCheck(MandatoryCheck(acc, field, rule), field, rule),
            field, rule)

RECURSIVE MasterLoop(_, _, _)
MasterLoop(acc, fields, spec) ==
    IF fields = <<>> THEN acc
    ELSE MasterLoop(FieldChecks(acc, Head(fields), spec.val[Head(fields)]),
                    Tail(fields), spec)

\* the format the header asks for, "none" when it asks for none (lines 222-227)
HeaderFormat(col) ==
    IF Contains(<<"t", "i", "m", "e">>, Lower(Chars(col))) THEN DateTimeFormat
    ELSE IF Contains(<<"d", "a", "t", "e">>, Lower(Chars(col)))
            /\ ~Contains(<<"t", "i", "m", "e">>, Lower(Chars(col))) THEN DateFormat
    ELSE "none"

\* the headers of the uploaded input sheets
Headers == {"Amount", "EventDate", "DateTime"}

\* desired_format of every header, worked out once
DesiredFormat == [col \in Headers |-> HeaderFormat(col)]

\* one turn of the loop over df_input.columns (lines 228-232)
HeaderCheck(acc, col) ==
    IF acc.raised THEN acc
    ELSE IF DesiredFormat[col] # "none"
            /\ ToDatetimeFormatRaises(acc.df.data[col], DesiredFormat[col])
    THEN [acc EXCEPT !.fx = DictPut(@, col, Fixable("format_violation", DesiredFormat[col]))]
    ELSE acc

\* the header loop visits only the columns the validation specification names
HeaderColumnsOfSpec(spec, df) == SelectSeq(df.cols, LAMBDA c : DictHas(spec, c))

\* the columns the header loop visits
HeaderColumns(spec, df) == df.cols

RECURSIVE HeaderLoop(_, _)
HeaderLoop(acc, cols) ==
    IF cols = <<>> THEN acc
    ELSE HeaderLoop(HeaderCheck(acc, Head(cols)), Tail(cols))

\* the whole pass: missing columns, the master rules, the header rule
\* (its result holds the findings and the frame as the pass leaves it)
ValidationPass(spec, df) ==
    LET master == MasterLoop(PassStart(spec, df), spec.keys, spec)
    IN HeaderLoop(master, HeaderColumns(spec, master.df))

\* ------------------------------------------------------------------------
\* The fix prompt and the Submit Fix handler (lines 246-273)
\* ------------------------------------------------------------------------
\* options of the "Select new data type" box
NewTypes == {"string", "number", "date"}

\* default_format = "%d-%m-%Y %H:%M" if "time" in field.lower() else "%d-%m-%Y"
DefaultFormat(field) ==
    IF Contains(<<"t", "i", "m", "e">>, Lower(Chars(field))) THEN DateTimeFormat
    ELSE DateFormat

\* the conversion raises (only a bad format string does)
CoercionRaises(col, new_type, date_format) ==
    new_type = "date" /\ CoerceDateRaises(col, date_format)

\* the converted column
CoercedColumn(col, new_type, date_format) ==
    [i \in DOMAIN col |->
        CASE new_type = "date" -> CoerceDateCell(col[i], date_format)
          [] new_type = "number" -> CoerceNumberCell(col[i], IntegerResult(col))
          [] new_type = "string" -> CoerceStringCell(col[i])]

\* the values are written cell by cell and the write stops after the first row
AssignColumnPartial(df, field, values) ==
    [df EXCEPT !.data[field] =
        [i \in DOMAIN values |-> IF i = 1 THEN values[i] ELSE df.data[field][i]]]

\* df[field] = values
AssignColumn(df, field, values) == [df EXCEPT !.data[field] = values]

\* a Submit Fix button is drawn for every column
FixOfferedAlways(fx, field) == TRUE

\* the Submit Fix button of a field is drawn in this run
FixOffered(fx, field) == DictHas(fx, field)

\* ------------------------------------------------------------------------
\* One run of the script (lines 108-291)
\* ------------------------------------------------------------------------
NoDf == [cols |-> <<>>, data |-> <<>>]
NoFix == [field |-> "", new_type |-> "", format |-> "", outcome |-> "none"]
NoDownload == [offered |-> FALSE, data |-> NoDf]

\* if "df_input" not in st.session_state: st.session_state.df_input = df_input.copy()
WorkingCopy(present, session, file) == IF present THEN session ELSE file

\* modified_df = st.session_state.df_input.copy(); st.download_button(...)
Download(session) == [offered |-> TRUE, data |-> session]

\* the sheet is refused: st.error, st.stop (lines 121-123)
StoppedRun(present, session) ==
    [status |-> "stopped", present |-> present, session |-> session,
     spec |-> EmptyDict, pass_df |-> NoDf, nf |-> <<>>, fx |-> EmptyDict,
     download |-> NoDownload]

\* an exception reaches the handler of line 290: nothing below it is drawn
ErrorRun(spec, session) ==
    [status |-> "error", present |-> TRUE, session |-> session,
     spec |-> spec, pass_df |-> session, nf |-> <<>>, fx |-> EmptyDict,
     download |-> NoDownload]

\* the download button is drawn only when there is no non-fixable finding
RenderedRunGated(spec, session, pass_df, pass) ==
    [status |-> "rendered", present |-> TRUE, session |-> session,
     spec |-> spec, pass_df |-> pass_df, nf |-> pass.nf, fx |-> pass.fx,
     download |-> IF pass.nf = <<>> THEN Download(session) ELSE NoDownload]

\* the results and the download button are drawn
RenderedRun(spec, session, pass_df, pass) ==
    [status |-> "rendered", present |-> TRUE, session |-> session,
     spec |-> spec, pass_df |-> pass_df, nf |-> pass.nf, fx |-> pass.fx,
     download |-> Download(session)]

\* a run in which no button is pressed
PlainRun(sheet, present, session, file) ==
    IF SheetRefused(sheet) THEN StoppedRun(present, session)
    ELSE LET spec == BuildSpec(sheet.rows, EmptyDict)
             df == WorkingCopy(present, session, file)
             pass == ValidationPass(spec, df)
         IN IF pass.raised THEN ErrorRun(spec, pass.df)
            ELSE RenderedRun(spec, pass.df, df, pass)

\* the handler converts every column of the dataset, not only the field's
FixedSessionAllColumns(session, field, new_type, date_format) ==
    IF CoercionRaises(session.data[field], new_type, date_format) THEN session
    ELSE [session EXCEPT !.data =
             [c \in DOMAIN session.data |->
                 IF IsDatetimeColumn(session.data[c]) THEN session.data[c]
                 ELSE CoercedColumn(session.data[c], new_type, date_format)]]

\* the session after the handler of the pressed button
FixedSession(session, field, new_type, date_format) ==
    IF CoercionRaises(session.data[field], new_type, date_format) THEN session
    ELSE AssignColumn(session, field,
                      CoercedColumn(session.data[field], new_type, date_format))

\* st.experimental_rerun() ends the run inside the handler (line 269): the
\* findings of this run's pass are on the page, the fixed dataset is in the
\* session, and nothing below the pressed button is drawn, the download
\* button included
RerunRequested(spec, session, pass_df, pass) ==
    [status |-> "rerun", present |-> TRUE, session |-> session,
     spec |-> spec, pass_df |-> pass_df, nf |-> pass.nf, fx |-> pass.fx,
     download |-> NoDownload]

\* a run in which Submit Fix of a field is pressed; the button is only there
\* when this run's pass reports the field fixable
FixRun(sheet, session, file, field, new_type, date_format, rerun) ==
    LET spec == BuildSpec(sheet.rows, EmptyDict)
        pass == ValidationPass(spec, session)
        fixed == FixedSession(pass.df, field, new_type, date_format)
    IN IF CoercionRaises(pass.df.data[field], new_type, date_format)
       THEN RenderedRun(spec, pass.df, session, pass)
       ELSE IF rerun THEN RerunRequested(spec, fixed, session, pass)
       ELSE RenderedRun(spec, fixed, session, pass)

\* ------------------------------------------------------------------------
\* Uploaded files
\* ------------------------------------------------------------------------
\* headers of the input sheet
ColumnLists ==
    {<<"Amount", "EventDate">>, <<"EventDate", "DateTime">>, <<"DateTime", "Amount">>}

\* cells of the input sheet as pd.read_excel gives them
CellInputs ==
    {NaN, StrCell("12"), StrCell("x"), StrCell("31-12-2024"), StrCell("31-12-2024 10:30")}

\* the rows of the input sheet are listed in this order of their first cell
\* (no check and no conversion looks at the position of a row)
CellRank(c) ==
    CASE c = NaN -> 1
      [] c = StrCell("12") -> 2
      [] c = StrCell("x") -> 3
      [] c = StrCell("31-12-2024") -> 4
      [] c = StrCell("31-12-2024 10:30") -> 5

\* values of the first column
FirstColumns ==
    {col \in [1..NumRows -> CellInputs] :
        \A i \in 1..(NumRows - 1) : CellRank(col[i]) <= CellRank(col[i + 1])}

\* cells of the second column, which holds one value in every row
SiblingCellInputs == {NaN, StrCell("x")}

InputFiles ==
    {[cols |-> cl, data |-> [c \in Range(cl) |-> IF c = cl[1] THEN a ELSE b]] :
        cl \in ColumnLists, a \in FirstColumns,
        b \in {[i \in 1..NumRows |-> c] : c \in SiblingCellInputs}}

DataTypes == {"Number", "date", "string"}

ValidationCells == {NaNValue, "Regex: \\d+", "regex:("}

MandatoryFlags == {" m ", "O"}

\* validation expression and mandatory flag of a rule row
RuleChecks ==
    {<<v, f>> \in ValidationCells \X MandatoryFlags :
        v = NaNValue \/ f = "O"}

RuleRows ==
    {<<"F01", name, type, vf[1], vf[2], NaNValue>> :
        name \in {"Amount", "EventDate", "DateTime"}, type \in DataTypes,
        vf \in RuleChecks}

\* rule sheets: six columns
RuleSheets == {[ncols |-> 6, rows |-> <<r>>] : r \in RuleRows}

\* the state master sheet: one column of state names
StateSheet == [ncols |-> 1, rows |-> << <<"Goa">> >>]

\* a rule sheet with a seventh column
WideSheet(sheet) ==
    [ncols |-> 7, rows |-> [i \in DOMAIN sheet.rows |-> Append(sheet.rows[i], NaNValue)]]

\* the workbook: the first sheet is the one both sheet boxes show at first
Workbooks == {<<StateSheet, sheet, WideSheet(sheet)>> : sheet \in RuleSheets}

\* ------------------------------------------------------------------------
\* The session
\* ------------------------------------------------------------------------
VARIABLES
    workbook,            \* the uploaded Validation Master file
    input_file,          \* the uploaded Input Excel file
    val_sheet,           \* the sheet chosen for the validation rules
    has_session,         \* "df_input" in st.session_state
    session_df,          \* st.session_state.df_input
    run_status,          \* how the last run of the script ended
    validation_spec,     \* validation_spec of the last run
    pass_df,             \* the snapshot the last validation pass read
    non_fixable_errors,  \* non_fixable_errors of the last run
    fixable_errors,      \* fixable_errors of the last run
    download,            \* the download button of the last run
    last_fix,            \* the fix submitted in the last run, and how it ended
    ever_fixable,        \* fields some pass of the session reported fixable
    terminal_findings    \* non-fixable findings some pass reported for a field
                         \* it did not report fixable

vars ==
    <<workbook, input_file, val_sheet, has_session, session_df,
      run_status, validation_spec, pass_df, non_fixable_errors, fixable_errors,
      download, last_fix, ever_fixable, terminal_findings>>

Init ==
    /\ workbook \in Workbooks
    /\ input_file \in InputFiles
    /\ val_sheet = 1
    /\ has_session = FALSE
    /\ session_df = NoDf
    /\ run_status = "idle"
    /\ validation_spec = EmptyDict
    /\ pass_df = NoDf
    /\ non_fixable_errors = <<>>
    /\ fixable_errors = EmptyDict
    /\ download = NoDownload
    /\ last_fix = NoFix
    /\ ever_fixable = {}
    /\ terminal_findings = {}

\* the page after a run
Show(run) ==
    /\ has_session' = run.present
    /\ session_df' = run.session
    /\ run_status' = run.status
    /\ validation_spec' = run.spec
    /\ pass_df' = run.pass_df
    /\ non_fixable_errors' = run.nf
    /\ fixable_errors' = run.fx
    /\ download' = run.download
    /\ ever_fixable' = ever_fixable \cup Range(run.fx.keys)
    /\ terminal_findings' =
          terminal_findings \cup {x \in Range(run.nf) : ~DictHas(run.fx, x.field)}

\* the script runs with no button pressed (first load, any other widget, the
\* rerun st.experimental_rerun() asked for)
Rerun ==
    /\ Show(PlainRun(workbook[val_sheet], has_session, session_df, input_file))
    /\ last_fix' = NoFix
    /\ UNCHANGED <<workbook, input_file, val_sheet>>

\* the operator picks a sheet for the validation rules
SelectSheet(i) ==
    /\ run_status # "idle"
    /\ i # val_sheet
    /\ val_sheet' = i
    /\ Show(PlainRun(workbook[i], has_session, session_df, input_file))
    /\ last_fix' = NoFix
    /\ UNCHANGED <<workbook, input_file>>

\* the fix prompts the last run drew: all of them, or, when the run ended at
\* st.experimental_rerun(), those up to the prompt of the pressed button
DrawnPrompts ==
    IF run_status = "rerun"
    THEN LET at == CHOOSE i \in DOMAIN fixable_errors.keys :
                       fixable_errors.keys[i] = last_fix.field
         IN SubSeq(fixable_errors.keys, 1, at)
    ELSE fixable_errors.keys

\* the fields whose Submit Fix button the operator can press: the button is
\* on the page and the run the press starts draws it again
Pressable(field) ==
    /\ run_status \in {"rendered", "rerun"}
    /\ field \in Range(DrawnPrompts)
    /\ FixOffered(fixable_errors, field)
    /\ FixOffered(ValidationPass(validation_spec, session_df).fx, field)

\* the operator presses Submit Fix of a field; rerun_available is
\* hasattr(st, "experimental_rerun"), which the installed Streamlit decides
SubmitFix(field, new_type, date_format, rerun_available) ==
    /\ Pressable(field)
    /\ Show(FixRun(workbook[val_sheet], session_df, input_file,
                   field, new_type, date_format, rerun_available))
    /\ last_fix' = [field |-> field, new_type |-> new_type, format |-> date_format,
                    outcome |-> IF CoercionRaises(session_df.data[field], new_type,
                                                  date_format)
                                THEN "error" ELSE "success"]
    /\ UNCHANGED <<workbook, input_file, val_sheet>>

\* what the operator can leave in the type box and the date format box
\* (date_format stays "" unless the type is "date")
FixInputs ==
    {<<"string", "">>, <<"number", "">>} \cup
    {<<"date", f>> : f \in {DateFormat, DateTimeFormat, BadFormat}}

Next ==
    \/ Rerun
    \/ \E i \in 1..3 : SelectSheet(i)
    \/ \E field \in {f \in Range(session_df.cols) : Pressable(f)} :
          \E input \in FixInputs, rerun_available \in BOOLEAN :
             SubmitFix(field, input[1], input[2], rerun_available)

Spec == Init /\ [][Next]_vars

\* ------------------------------------------------------------------------
\* Properties
\* ------------------------------------------------------------------------
\* the last run drew the validation results and ran to its end
Rendered == run_status = "rendered"

\* the last run put the findings of its pass on the page
Reported == run_status \in {"rendered", "rerun"}

\* the findings on the page come from a pass over the session's dataset as it is
Fresh == Rendered /\ pass_df = session_df

\* the non-fixable findings of a kind the page shows for a field
FindingsOf(kind, field) ==
    {i \in DOMAIN non_fixable_errors :
        non_fixable_errors[i].kind = kind /\ non_fixable_errors[i].field = field}

\* the page says the file is valid
FullyValid == Rendered /\ non_fixable_errors = <<>> /\ fixable_errors.keys = <<>>

\* the rule rows of the chosen sheet
ChosenRows == workbook[val_sheet].rows

\* the step is a run in which no button was pressed and no sheet was picked
PlainStep == last_fix' = NoFix /\ val_sheet' = val_sheet

\* C1 as stated: a non-fixable finding a pass reports is reported by every
\* later pass of the session, whatever coercions the operator submits.
C1_NonFixableStaysReported ==
    [][\A x \in Range(non_fixable_errors) :
          (Rendered /\ run_status' = "rendered") => x \in Range(non_fixable_errors')]_vars

\* C1 amended: a non-fixable finding reported for a field that the same pass
\* does not report fixable (and a missing-columns finding) is reported by every
\* later pass, and the page never says the file is valid.
C1_TerminalFindingsStay ==
    Reported =>
        /\ terminal_findings \subseteq Range(non_fixable_errors)
        /\ (terminal_findings # {} => ~FullyValid)

C1_Witness ==
    /\ Fresh
    /\ last_fix = NoFix
    /\ session_df # input_file
    /\ \E x \in terminal_findings : x.kind = "type_violation"

\* C2: a Submit Fix run leaves the dataset with the column of its field
\* replaced by the converted values, or as it was when the conversion raised;
\* the other columns, the column order and the rows are as before, and no
\* other run changes the dataset once the session has it.
C2_CoercionAtomic ==
    [][IF last_fix'.outcome = "none"
       THEN has_session => session_df' = session_df
       ELSE /\ session_df'.cols = session_df.cols
            /\ DOMAIN session_df'.data = DOMAIN session_df.data
            /\ \A c \in Range(session_df.cols) \ {last_fix'.field} :
                  session_df'.data[c] = session_df.data[c]
            /\ Len(session_df'.data[last_fix'.field])
                  = Len(session_df.data[last_fix'.field])
            /\ session_df'.data[last_fix'.field] =
                  IF last_fix'.outcome = "success"
                  THEN CoercedColumn(session_df.data[last_fix'.field],
                                     last_fix'.new_type, last_fix'.format)
                  ELSE session_df.data[last_fix'.field]]_vars

C2_Witness ==
    /\ last_fix.outcome = "error"
    /\ \E c \in Range(session_df.cols) :
          /\ c # last_fix.field
          /\ session_df.data[c] # input_file.data[c]

\* C3: the pass leaves the dataset it read as it found it (the first run
\* leaves the uploaded data in the session, a later run without a fix leaves
\* the session's dataset unchanged, and the snapshot a run's pass read is the
\* dataset the run leaves unless its fix handler wrote), and a run that follows
\* a run with no fix in between, reading what that run left, reports the same
\* non-fixable list in the same order and the same fixable mapping.
C3_PassIdempotent ==
    [][PlainStep =>
          /\ has_session => session_df' = session_df
          /\ (~has_session /\ has_session') => session_df' = input_file
          /\ run_status' = "rendered" => pass_df' = session_df'
          /\ (Rendered /\ last_fix = NoFix) =>
                /\ run_status' = "rendered"
                /\ non_fixable_errors' = non_fixable_errors
                /\ fixable_errors' = fixable_errors
                /\ pass_df' = pass_df]_vars

C3_Witness ==
    /\ Fresh
    /\ last_fix = NoFix
    /\ session_df # input_file
    /\ non_fixable_errors # <<>>
    /\ fixable_errors.keys # <<>>

\* the master date check of a field fails on the snapshot of the last pass
MasterDateFails(field) ==
    \E r \in Range(ChosenRows) :
        /\ r[2] = field
        /\ Lower(Chars(PyStr(r[3]))) = Chars("date")
        /\ ToDatetimeRaises(pass_df.data[field])

\* the header-format check of a column fails on the snapshot of the last pass
HeaderCheckFails(col) ==
    /\ HeaderFormat(col) # "none"
    /\ ToDatetimeFormatRaises(pass_df.data[col], HeaderFormat(col))

\* C4: the fixable mapping has one entry per field at most, and a field that
\* fails the master date check and the header-format check has the
\* header-format finding with the format of its header, which is also the
\* default of the format box.
C4_HeaderFindingWins ==
    Reported =>
        /\ \A i, j \in DOMAIN fixable_errors.keys :
              fixable_errors.keys[i] = fixable_errors.keys[j] => i = j
        /\ \A f \in Range(pass_df.cols) :
              (MasterDateFails(f) /\ HeaderCheckFails(f)) =>
                 /\ DictHas(fixable_errors, f)
                 /\ fixable_errors.val[f].kind = "format_violation"
                 /\ fixable_errors.val[f].format = HeaderFormat(f)
                 /\ DefaultFormat(f) = fixable_errors.val[f].format

C4_Witness ==
    /\ Rendered
    /\ \E f \in Range(pass_df.cols) :
          /\ MasterDateFails(f) /\ HeaderCheckFails(f)
          /\ fixable_errors.val[f] = Fixable("format_violation", DateFormat)

\* the lower-cased header contains the word
HeaderHas(word, col) == Contains(word, Lower(Chars(col)))

\* a value parses under a format: it is missing, a timestamp already, or a
\* text of exactly that format
ValueParses(c, fmt) ==
    \/ c.k \in {"na", "ts"}
    \/ c.k = "str" /\ (c.s \in NatStrings \/ FormatOfText(c.s) = fmt)

AllValuesParse(col, fmt) == \A i \in DOMAIN col : ValueParses(col[i], fmt)

\* the column has exactly one fixable entry, a format_violation with the format
OneFormatViolation(col, fmt) ==
    /\ Cardinality({i \in DOMAIN fixable_errors.keys : fixable_errors.keys[i] = col}) = 1
    /\ fixable_errors.val[col] = Fixable("format_violation", fmt)
    /\ DefaultFormat(col) = fmt

\* C5: every column of the dataset, in the validation specification or not,
\* whose header contains "time" and whose values do not all parse under
\* dd-mm-yyyy hh:mm has exactly one fixable format_violation with that default
\* format; with "date" and not "time", under dd-mm-yyyy; a column whose header
\* contains neither has no format_violation.
C5_HeaderRuleOnEveryColumn ==
    Reported =>
        \A col \in Range(pass_df.cols) :
            /\ (HeaderHas(<<"t", "i", "m", "e">>, col)
                  /\ ~AllValuesParse(pass_df.data[col], DateTimeFormat))
                  => OneFormatViolation(col, DateTimeFormat)
            /\ (HeaderHas(<<"d", "a", "t", "e">>, col)
                  /\ ~HeaderHas(<<"t", "i", "m", "e">>, col)
                  /\ ~AllValuesParse(pass_df.data[col], DateFormat))
                  => OneFormatViolation(col, DateFormat)
            /\ (~HeaderHas(<<"d", "a", "t", "e">>, col)
                  /\ ~HeaderHas(<<"t", "i", "m", "e">>, col))
                  => ~(DictHas(fixable_errors, col)
                         /\ fixable_errors.val[col].kind = "format_violation")

C5_Witness ==
    /\ Rendered
    /\ \E col \in Range(pass_df.cols) :
          /\ ~DictHas(validation_spec, col)
          /\ HeaderHas(<<"t", "i", "m", "e">>, col)
          /\ HeaderHas(<<"d", "a", "t", "e">>, col)
          /\ ~AllValuesParse(pass_df.data[col], DateTimeFormat)
          /\ OneFormatViolation(col, DateTimeFormat)

\* the rule of the field (its last row) has a flag that, trimmed and
\* upper-cased, is "M"
MandatoryByRule(field) ==
    \E i \in DOMAIN ChosenRows :
        /\ ChosenRows[i][2] = field
        /\ \A j \in DOMAIN ChosenRows : j > i => ChosenRows[j][2] # field
        /\ Upper(Strip(Chars(PyStr(ChosenRows[i][5])))) = <<"M">>

\* C6: a field that is mandatory by its rule and whose column has a missing
\* value has exactly one non-fixable mandatory_violation, however many cells
\* are missing; every other column has none.
C6_OneMandatoryViolation ==
    Reported =>
        \A f \in Range(pass_df.cols) :
            Cardinality(FindingsOf("mandatory_violation", f)) =
                IF MandatoryByRule(f) /\ AnyNull(pass_df.data[f]) THEN 1 ELSE 0

C6_Witness ==
    /\ Rendered
    /\ \E f \in Range(pass_df.cols) :
          /\ MandatoryByRule(f)
          /\ \A i \in DOMAIN pass_df.data[f] : IsNull(pass_df.data[f][i])
          /\ Len(pass_df.data[f]) >= 2
          /\ Cardinality(FindingsOf("mandatory_violation", f)) = 1

\* C7 as stated: in every state reached after a 6-column rule sheet and a
\* dataset are loaded, the download is there and carries the session's dataset.
C7_ExportAlwaysAvailable ==
    (run_status # "idle" /\ workbook[val_sheet].ncols = 6) =>
        /\ download.offered
        /\ has_session
        /\ download.data = session_df

\* C7 amended: whenever a run has drawn the validation results and run to its
\* end, whatever findings they hold and however the last fix ended, the
\* download button is there and carries the session's dataset as it is; a run
\* whose pass raised, and a fix run ended by the rerun request, draw no
\* download button.
C7_ExportNeverGated ==
    /\ Rendered =>
          /\ download.offered
          /\ has_session
          /\ download.data = session_df
    /\ run_status \in {"error", "rerun"} => ~download.offered

C7_Witness ==
    /\ Rendered
    /\ non_fixable_errors # <<>>
    /\ fixable_errors.keys # <<>>
    /\ last_fix.outcome = "error"
    /\ session_df # input_file
    /\ download = [offered |-> TRUE, data |-> session_df]

\* the page reports a number type_violation for the field and nothing else
OnlyNumberCheckFails(f) ==
    /\ Fresh
    /\ FindingsOf("type_violation", f) # {}
    /\ FindingsOf("mandatory_violation", f) = {}
    /\ FindingsOf("pattern_violation", f) = {}
    /\ ~DictHas(fixable_errors, f)

\* C8 as stated: the operator can submit a coercion of a field whose only
\* failing rule is the master number check.
C8_NumberOnlyFieldCanBeFixed ==
    \A f \in Range(session_df.cols) : OnlyNumberCheckFails(f) => Pressable(f)

\* the number coercion of one value: a number stays, a text that reads as a
\* number becomes that number, anything else becomes the missing marker
NumberOrMissing(old, new) ==
    IF old.k \in {"num", "int"} THEN new = old
    ELSE IF old.k = "str" /\ old.s \in {"12", "12.0"}
         THEN new.k \in {"num", "int"} /\ new.n = 12
    ELSE new = NaN

\* C8 amended: a coercion to number can be submitted only for a field the pass
\* reports fixable; it replaces each unparseable cell by the missing marker
\* and keeps the parseable ones in place, and the re-validation that follows
\* reads the post-coercion snapshot and reports no type_violation for the field.
C8_NumberCoercion ==
    [][/\ (last_fix'.outcome = "success" /\ last_fix'.new_type = "number") =>
             /\ DictHas(ValidationPass(validation_spec, session_df).fx, last_fix'.field)
             /\ DOMAIN session_df'.data[last_fix'.field] =
                   DOMAIN session_df.data[last_fix'.field]
             /\ \A i \in DOMAIN session_df.data[last_fix'.field] :
                   NumberOrMissing(session_df.data[last_fix'.field][i],
                                   session_df'.data[last_fix'.field][i])
             /\ pass_df' = session_df' =>
                   \A i \in DOMAIN non_fixable_errors' :
                       ~(non_fixable_errors'[i].kind = "type_violation"
                           /\ non_fixable_errors'[i].field = last_fix'.field)
       /\ (last_fix.outcome = "success" /\ last_fix.new_type = "number"
             /\ PlainStep /\ run_status' = "rendered") =>
             /\ pass_df' = session_df
             /\ \A i \in DOMAIN non_fixable_errors' :
                   ~(non_fixable_errors'[i].kind = "type_violation"
                       /\ non_fixable_errors'[i].field = last_fix.field)]_vars

C8_Witness ==
    /\ Fresh
    /\ last_fix = NoFix
    /\ \E f \in Range(session_df.cols) :
          /\ \E r \in Range(ChosenRows) : r[2] = f /\ r[3] = "Number"
          /\ input_file.data[f] = <<StrCell("12"), StrCell("x")>>
          /\ session_df.data[f] = <<NumCell(12), NaN>>
          /\ FindingsOf("type_violation", f) = {}

\* C9: a run on a sheet whose column count is not 6 stops before anything is
\* compiled: no validation specification, no findings, no fix to submit, no
\* download, and the session's dataset is neither created nor changed.
C9_RefusedSheet ==
    /\ []((run_status # "idle" /\ workbook[val_sheet].ncols # 6) =>
             /\ run_status = "stopped"
             /\ validation_spec = EmptyDict
             /\ non_fixable_errors = <<>>
             /\ fixable_errors = EmptyDict
             /\ ~download.offered
             /\ \A f \in Range(input_file.cols) : ~Pressable(f))
    /\ [][workbook[val_sheet'].ncols # 6 =>
             /\ has_session' = has_session
             /\ session_df' = session_df]_vars

C9_Witness ==
    /\ run_status = "stopped"
    /\ workbook[val_sheet].ncols = 7
    /\ has_session
    /\ session_df # input_file

\* C10: a fix is only submitted for a field the current pass reports fixable;
\* a column whose field no pass has reported fixable holds the values it was
\* loaded with; a fix adds no field to the fixable mapping, neither on the page
\* of its own run nor on the page of the run that follows it.
C10_OnlyFixableFieldsChange ==
    /\ [](has_session =>
             \A c \in Range(session_df.cols) \ ever_fixable :
                 session_df.data[c] = input_file.data[c])
    /\ [][/\ last_fix'.outcome # "none" =>
                /\ DictHas(ValidationPass(validation_spec, session_df).fx,
                           last_fix'.field)
                /\ Range(fixable_errors'.keys) \subseteq Range(fixable_errors.keys)
          /\ (last_fix.outcome = "success" /\ PlainStep /\ Reported
                /\ run_status' = "rendered") =>
                Range(fixable_errors'.keys) \subseteq Range(fixable_errors.keys)]_vars

C10_Witness ==
    /\ Rendered
    /\ last_fix.outcome = "success"
    /\ session_df.data[last_fix.field] # input_file.data[last_fix.field]
    /\ \E c \in Range(session_df.cols) \ ever_fixable :
          FindingsOf("type_violation", c) # {}

====
